---- MODULE Spec2Model ----
(***************************************************************************)
(* Model of src/app.py: the team-directory cache (get_teams,               *)
(* update_teams_cache, fetch_teams_from_api), the match-history selector   *)
(* (get_team_matches, get_relevant_matches), the statistics aggregator     *)
(* (get_team_stats), the label predictions that are exact rational         *)
(* comparisons (predict_result, predict_double_chance,                     *)
(* predict_half_time_winner) and the index() request handler.              *)
(*                                                                         *)
(* Time is counted in whole seconds.  Team names are the integers 1..n in  *)
(* the order Python's sorted() gives the names.  Rates that the code       *)
(* rounds to two decimals are kept as integers counting hundredths.        *)
(* The Poisson markets of the bundle (goals, over_under, exact_score,      *)
(* both_teams_score) need exp() on floats and are left out of the bundle.  *)
(***************************************************************************)
EXTENDS Integers, Sequences, FiniteSets, TLC

\* ------------------------------------------------------------------ bounds
\* how many entries of COMPETITIONS (a prefix of the list) are configured
NumComps == 2
\* how many times the clock is advanced in one behaviour
MaxTicks == 2
\* how many requests the server handles at the same time
NumProcs == 2
\* how many matches the provider returns for a team when index() asks
MaxMatches == 2
\* how many matches get_team_stats is given when it is applied on its own
MaxStatMatches == 2
\* how many matches the provider returns when get_relevant_matches is
\* applied on its own
MaxRecent == 6

\* ------------------------------------------------------- program constants
\* CACHE_DURATION = timedelta(days=2), in seconds
CACHE_DURATION == 172800

COMPETITIONS == 1 .. NumComps

\* the default logo of a team whose record has no "crest"
Placeholder == "https://via.placeholder.com/50"
NoCrest == "no_crest"

\* ------------------------------------------------------------ the provider
\* Team records as the provider sends them.  Records 1 and 3 carry the same
\* name with different ids; record 2 has no crest.
ApiTeam(n, i, c) == [name |-> n, id |-> i, crest |-> c]
ApiFail == [ok |-> FALSE, teams |-> << >>]
ApiOk(ts) == [ok |-> TRUE, teams |-> ts]

\* What one GET /competitions/<code>/teams can answer: a failure
\* (requests.RequestException), or a payload with its list of teams.
ApiResponses ==
    { ApiFail,
      ApiOk(<< >>),
      ApiOk(<< ApiTeam(2, 12, NoCrest), ApiTeam(1, 11, "crest11") >>),
      ApiOk(<< ApiTeam(1, 13, "crest13") >>) }

\* ------------------------------------------------------------ dictionaries
EmptyDict == << >>

\* d[k] = v of a Python dict
DictSet(d, k, v) == [x \in (DOMAIN d) \cup {k} |-> IF x = k THEN v ELSE d[x]]

\* d.update(e)
DictUpdate(d, e) ==
    [x \in (DOMAIN d) \cup (DOMAIN e) |-> IF x \in DOMAIN e THEN e[x] ELSE d[x]]

\* sorted(keys): the elements of a finite set of integers, ascending
RECURSIVE sorted(_)
sorted(S) ==
    IF S = {} THEN << >>
    ELSE LET m == CHOOSE x \in S : \A y \in S : x <= y
         IN  << m >> \o sorted(S \ {m})

\* --------------------------------------------------- fetch_teams_from_api
\* the dict comprehension of lines 38-43: a later record of the same name
\* replaces an earlier one
RECURSIVE TeamsDict(_)
TeamsDict(ts) ==
    IF ts = << >> THEN EmptyDict
    ELSE LET t == ts[Len(ts)]
         IN  DictSet(TeamsDict(SubSeq(ts, 1, Len(ts) - 1)), t.name,
                     [id |-> t.id,
                      logo |-> IF t.crest = NoCrest THEN Placeholder ELSE t.crest])

\* the teams of a competition, {} when the request fails
fetch_teams_from_api(resp) ==
    IF resp.ok THEN TeamsDict(resp.teams) ELSE EmptyDict

\* ------------------------------------------------------ the cache file
\* teams_cache.json: missing, present but not parseable as a JSON object, or
\* a JSON object holding some of the keys teams, league_teams, last_updated.
\* A key that is absent holds the default value here.
NoFile ==
    [kind |-> "missing", keys |-> {}, teams |-> EmptyDict,
     league_teams |-> EmptyDict, last_updated |-> 0, iso |-> TRUE]

Unparseable ==
    [kind |-> "unparseable", keys |-> {}, teams |-> EmptyDict,
     league_teams |-> EmptyDict, last_updated |-> 0, iso |-> TRUE]

AllKeys == {"teams", "league_teams", "last_updated"}

\* json.dump(cache_data, f) of lines 60-66, with last_updated the ISO text of t
cache_data(all_teams, league_teams, t) ==
    [kind |-> "json", keys |-> AllKeys, teams |-> all_teams,
     league_teams |-> league_teams, last_updated |-> t, iso |-> TRUE]

WellFormed(f) == f.kind = "json" /\ f.keys = AllKeys /\ f.iso

\* os.path.exists(TEAMS_CACHE_FILE)
Exists(f) == f.kind # "missing"

\* ----------------------------------------------------- update_teams_cache
\* the loop of lines 53-57 over the first n competitions; resps[c] is what
\* the provider answers for competition c
\* (a merge in which the first competition to carry a name keeps it)
RECURSIVE MergeCompsFirstWins(_, _)
MergeCompsFirstWins(resps, n) ==
    IF n = 0 THEN [all_teams |-> EmptyDict, league_teams |-> EmptyDict]
    ELSE LET acc == MergeCompsFirstWins(resps, n - 1)
             teams == fetch_teams_from_api(resps[n])
         IN  IF teams # EmptyDict
             THEN [all_teams |-> DictUpdate(teams, acc.all_teams),
                   league_teams |->
                       DictSet(acc.league_teams, n, sorted(DOMAIN teams))]
             ELSE acc

RECURSIVE MergeComps(_, _)
MergeComps(resps, n) ==
    IF n = 0 THEN [all_teams |-> EmptyDict, league_teams |-> EmptyDict]
    ELSE LET acc == MergeComps(resps, n - 1)
             teams == fetch_teams_from_api(resps[n])
         IN  IF teams # EmptyDict
             THEN [all_teams |-> DictUpdate(acc.all_teams, teams),
                   league_teams |->
                       DictSet(acc.league_teams, n, sorted(DOMAIN teams))]
             ELSE acc

\* the result of a call: what is returned, the file afterwards, which
\* competitions were requested from the provider, whether the file was written
\* (a refresh that keeps an empty directory out of the cache file)
update_teams_cache_unless_empty(resps, t) ==
    LET m == MergeComps(resps, NumComps)
    IN  [status |-> "ok", teams |-> m.all_teams, league_teams |-> m.league_teams,
         file |-> IF m.all_teams = EmptyDict THEN NoFile
                  ELSE cache_data(m.all_teams, m.league_teams, t),
         fetched |-> [c \in COMPETITIONS |-> c],
         wrote |-> m.all_teams # EmptyDict]

update_teams_cache(resps, t) ==
    LET m == MergeComps(resps, NumComps)
    IN  [status |-> "ok", teams |-> m.all_teams, league_teams |-> m.league_teams,
         file |-> cache_data(m.all_teams, m.league_teams, t),
         fetched |-> [c \in COMPETITIONS |-> c], wrote |-> TRUE]

\* ------------------------------------------------------------- get_teams
\* an exception leaves get_teams: nothing is returned, fetched or written
Crash(f) ==
    [status |-> "crash", teams |-> EmptyDict, league_teams |-> EmptyDict,
     file |-> f, fetched |-> << >>, wrote |-> FALSE]

FromCache(f) ==
    [status |-> "ok", teams |-> f.teams, league_teams |-> f.league_teams,
     file |-> f, fetched |-> << >>, wrote |-> FALSE]

\* (a cache that is still served at exactly CACHE_DURATION)
FreshAtDuration(f, t) == t - f.last_updated <= CACHE_DURATION

\* line 75
Fresh(f, t) == t - f.last_updated < CACHE_DURATION

get_teams(f, t, resps) ==
    IF ~Exists(f) THEN update_teams_cache(resps, t)
    ELSE IF f.kind = "unparseable" THEN Crash(f)               \* json.load
    ELSE IF "last_updated" \notin f.keys THEN Crash(f)         \* KeyError
    ELSE IF ~f.iso THEN Crash(f)                               \* fromisoformat
    ELSE IF Fresh(f, t)
         THEN IF {"teams", "league_teams"} \subseteq f.keys
              THEN FromCache(f)
              ELSE Crash(f)                                    \* KeyError
         ELSE update_teams_cache(resps, t)

\* ---------------------------------------------------------------- matches
\* a goal count that the provider sends as null
NULL == -1

\* a match of the provider: the two team ids, the full-time and the
\* half-time score
Match(h, a, fh, fa, hh, ha) ==
    [homeTeam |-> h, awayTeam |-> a, ftHome |-> fh, ftAway |-> fa,
     htHome |-> hh, htAway |-> ha]

\* x or 0
OrZero(x) == IF x = NULL THEN 0 ELSE x

MatchFail == [ok |-> FALSE, matches |-> << >>]
MatchOk(ms) == [ok |-> TRUE, matches |-> ms]

\* get_team_matches: the matches of the answer, [] when the request fails
get_team_matches(resp) == IF resp.ok THEN resp.matches ELSE << >>

\* q[:n]
Take(q, n) == SubSeq(q, 1, IF Len(q) < n THEN Len(q) ELSE n)

\* the list comprehension of line 101
RECURSIVE AwayIs(_, _)
AwayIs(q, id) ==
    IF q = << >> THEN << >>
    ELSE IF Head(q).awayTeam = id THEN << Head(q) >> \o AwayIs(Tail(q), id)
    ELSE AwayIs(Tail(q), id)

\* lines 101-102 of get_relevant_matches, given the two lists fetched
Relevant(home_matches, away_matches, away_id) ==
    AwayIs(home_matches, away_id) \o Take(home_matches, 5) \o Take(away_matches, 5)

\* get_relevant_matches; provider[id] is the provider's answer for team id
get_relevant_matches(home_team, away_team, team_ids, provider) ==
    Relevant(get_team_matches(provider[team_ids[home_team].id]),
             get_team_matches(provider[team_ids[away_team].id]),
             team_ids[away_team].id)

\* ---------------------------------------------------------- get_team_stats
\* round(n / d, 2), counted in hundredths.  Python rounds the double n / d to
\* the nearest hundredth and a tie to the even one; with d below 40 a tie is
\* a multiple of 1/8 and so an exact double.
Round2(n, d) ==
    LET q == (100 * n) \div d
        r == (100 * n) % d
    IN  IF 2 * r < d THEN q
        ELSE IF 2 * r > d THEN q + 1
        ELSE IF q % 2 = 0 THEN q ELSE q + 1

ZeroTally == [goals_scored |-> 0, goals_conceded |-> 0, half_time_wins |-> 0,
              second_half_wins |-> 0, both_teams_score |-> 0]

Bit(b) == IF b THEN 1 ELSE 0

\* one pass of the loop of lines 110-130
TallyMatch(acc, match, team_id) ==
    LET home_goals == OrZero(match.ftHome)
        away_goals == OrZero(match.ftAway)
        home_half == OrZero(match.htHome)
        away_half == OrZero(match.htAway)
        home_second == home_goals - home_half
        away_second == away_goals - away_half
    IN  IF match.homeTeam = team_id
        THEN [goals_scored |-> acc.goals_scored + home_goals,
              goals_conceded |-> acc.goals_conceded + away_goals,
              half_time_wins |-> acc.half_time_wins + Bit(home_half > away_half),
              second_half_wins |->
                  acc.second_half_wins + Bit(home_second > away_second),
              both_teams_score |->
                  acc.both_teams_score + Bit(home_goals > 0 /\ away_goals > 0)]
        ELSE IF match.awayTeam = team_id
        THEN [goals_scored |-> acc.goals_scored + away_goals,
              goals_conceded |-> acc.goals_conceded + home_goals,
              half_time_wins |-> acc.half_time_wins + Bit(away_half > home_half),
              second_half_wins |->
                  acc.second_half_wins + Bit(home_second > away_second),
              both_teams_score |->
                  acc.both_teams_score + Bit(home_goals > 0 /\ away_goals > 0)]
        ELSE acc

\* (a pass that takes the second half from the team's own side)
TallyMatchOwnSide(acc, match, team_id) ==
    LET home_goals == OrZero(match.ftHome)
        away_goals == OrZero(match.ftAway)
        home_half == OrZero(match.htHome)
        away_half == OrZero(match.htAway)
        home_second == home_goals - home_half
        away_second == away_goals - away_half
    IN  IF match.homeTeam = team_id
        THEN [goals_scored |-> acc.goals_scored + home_goals,
              goals_conceded |-> acc.goals_conceded + away_goals,
              half_time_wins |-> acc.half_time_wins + Bit(home_half > away_half),
              second_half_wins |->
                  acc.second_half_wins + Bit(home_second > away_second),
              both_teams_score |->
                  acc.both_teams_score + Bit(home_goals > 0 /\ away_goals > 0)]
        ELSE IF match.awayTeam = team_id
        THEN [goals_scored |-> acc.goals_scored + away_goals,
              goals_conceded |-> acc.goals_conceded + home_goals,
              half_time_wins |-> acc.half_time_wins + Bit(away_half > home_half),
              second_half_wins |->
                  acc.second_half_wins + Bit(away_second > home_second),
              both_teams_score |->
                  acc.both_teams_score + Bit(home_goals > 0 /\ away_goals > 0)]
        ELSE acc

\* the loop of lines 110-130 over the first k matches
RECURSIVE Tally(_, _, _)
Tally(matches, team_id, k) ==
    IF k = 0 THEN ZeroTally
    ELSE TallyMatch(Tally(matches, team_id, k - 1), matches[k], team_id)

RECURSIVE TallyOwnSide(_, _, _)
TallyOwnSide(matches, team_id, k) ==
    IF k = 0 THEN ZeroTally
    ELSE TallyMatchOwnSide(TallyOwnSide(matches, team_id, k - 1), matches[k], team_id)

Max(a, b) == IF a > b THEN a ELSE b

\* lines 131-137
Rates(t, games) ==
    [goals_avg_scored |-> Round2(t.goals_scored, Max(1, games)),
     goals_avg_conceded |-> Round2(t.goals_conceded, Max(1, games)),
     half_time_win_rate |-> Round2(t.half_time_wins, Max(1, games)),
     second_half_win_rate |-> Round2(t.second_half_wins, Max(1, games)),
     both_teams_score_rate |-> Round2(t.both_teams_score, Max(1, games))]

ZeroStats ==
    [goals_avg_scored |-> 0, goals_avg_conceded |-> 0, half_time_win_rate |-> 0,
     second_half_win_rate |-> 0, both_teams_score_rate |-> 0]

\* (statistics with the second half taken from the team's own side)
get_team_stats_own_side(matches, team_id) ==
    IF matches = << >> THEN ZeroStats
    ELSE Rates(TallyOwnSide(matches, team_id, Len(matches)), Len(matches))

get_team_stats(matches, team_id) ==
    IF matches = << >> THEN ZeroStats
    ELSE Rates(Tally(matches, team_id, Len(matches)), Len(matches))

\* ------------------------------------------------------------ predictions
\* max(probas, key=probas.get) over a dict given as the list of its items in
\* insertion order, each a label and the numerator of its probability over the
\* common positive total: the first item that no other exceeds
RECURSIVE ArgMax(_)
ArgMax(items) ==
    IF Len(items) = 1 THEN items[1]
    ELSE LET best == ArgMax(SubSeq(items, 1, Len(items) - 1))
             last == items[Len(items)]
         IN  IF last.num > best.num THEN last ELSE best

Item(l, n) == [label |-> l, num |-> n]

\* lines 139-147, in hundredths
predict_result(home_team, away_team, matches, team_ids) ==
    LET home_stats == get_team_stats(matches, team_ids[home_team].id)
        away_stats == get_team_stats(matches, team_ids[away_team].id)
        home_strength == home_stats.goals_avg_scored + 100
        away_strength == away_stats.goals_avg_scored + 100
    IN  ArgMax(<< Item("1", home_strength), Item("X", 100),
                  Item("2", away_strength) >>).label

\* lines 149-157, in hundredths
predict_double_chance(home_team, away_team, matches, team_ids) ==
    LET home_stats == get_team_stats(matches, team_ids[home_team].id)
        away_stats == get_team_stats(matches, team_ids[away_team].id)
        home_strength == home_stats.goals_avg_scored + 100
        away_strength == away_stats.goals_avg_scored + 100
    IN  ArgMax(<< Item("1X", home_strength + 100), Item("X2", 100 + away_strength),
                  Item("12", home_strength + away_strength) >>).label

\* (a half-time prediction that lets the second-half win rate in:
\*  1 - (1 - half_time_win_rate) * (1 - second_half_win_rate), in 1/10000)
predict_half_time_winner_both_halves(home_team, away_team, matches, team_ids) ==
    LET home_stats == get_team_stats(matches, team_ids[home_team].id)
        away_stats == get_team_stats(matches, team_ids[away_team].id)
        home_proba == 10000 - (100 - home_stats.half_time_win_rate)
                                * (100 - home_stats.second_half_win_rate)
        away_proba == 10000 - (100 - away_stats.half_time_win_rate)
                                * (100 - away_stats.second_half_win_rate)
    IN  ArgMax(<< Item("1", home_proba), Item("X", 1000),
                  Item("2", away_proba) >>).label

\* lines 187-195, in hundredths
predict_half_time_winner(home_team, away_team, matches, team_ids) ==
    LET home_stats == get_team_stats(matches, team_ids[home_team].id)
        away_stats == get_team_stats(matches, team_ids[away_team].id)
        home_proba == home_stats.half_time_win_rate
        away_proba == away_stats.half_time_win_rate
    IN  ArgMax(<< Item("1", home_proba), Item("X", 10), Item("2", away_proba) >>).label

\* ------------------------------------------------------------------ state
VARIABLES
    file,       \* teams_cache.json
    now,        \* datetime.now(), in seconds
    ticks,      \* how often the clock was advanced
    op,         \* the step taken last
    ret,        \* what the last call of get_teams returned: status, teams, league_teams
    fetched,    \* the competitions the last call requested from the provider
    answers,    \* what the provider answered to them
    wrote,      \* whether the last call wrote the cache file
    pc,         \* concurrent requests: where each one is in get_teams
    loc,        \* concurrent requests: the cache_data each one is about to write
    cret,       \* concurrent requests: what get_teams returned to each one
    provider,   \* the provider's answer to GET /teams/<id>/matches, per team id
    form,       \* the method and the form fields of the last request
    page,       \* what index() passed to render_template
    history,    \* the team ids whose matches the last request asked for
    in_matches, \* get_team_stats on its own: the matches
    in_team,    \* get_team_stats on its own: the team id
    stats_out,  \* get_team_stats on its own: the result
    relevant    \* get_relevant_matches on its own: the result

dirvars == << file, now, ticks, op, ret, fetched, answers, wrote >>
seqvars == << ticks, op, ret, fetched, answers, wrote >>
concvars == << pc, loc, cret >>
idxvars == << provider, form, page, history >>
statvars == << in_matches, in_team, stats_out >>
selvars == << relevant >>
restvars == << idxvars, statvars, selvars >>

Procs == 1 .. NumProcs

NoRet == [status |-> "none", teams |-> EmptyDict, league_teams |-> EmptyDict]

SeqIdle ==
    /\ ticks = 0
    /\ op = "init"
    /\ ret = NoRet
    /\ fetched = << >>
    /\ answers = << >>
    /\ wrote = FALSE

ConcIdle ==
    /\ pc = [p \in Procs |-> "idle"]
    /\ loc = [p \in Procs |-> NoFile]
    /\ cret = [p \in Procs |-> NoRet]

\* ------------------------------------------------ the state of a request
None == [some |-> FALSE, value |-> << >>]
Some(v) == [some |-> TRUE, value |-> v]

NoForm == [method |-> "", home_team |-> 0, away_team |-> 0]

NoPage == [status |-> "none"]

BoundedSeq(S, n) == UNION {[1 .. k -> S] : k \in 0 .. n}

\* the ids of the two teams of the directory below, and of a third team
\* that only shows up as an opponent
TeamId(n) == 10 + n
HomeId == TeamId(1)
AwayId == TeamId(2)
OtherId == TeamId(3)

\* the provider's matches of team 11 and of team 12: the two teams at either
\* ground, and each against the third team (one with null goal counts)
MatchesOf(id) ==
    IF id = HomeId
    THEN { Match(HomeId, AwayId, 2, 1, 1, 0),
           Match(AwayId, HomeId, 1, 1, 0, 1),
           Match(HomeId, OtherId, 1, NULL, NULL, NULL) }
    ELSE { Match(HomeId, AwayId, 2, 1, 1, 0),
           Match(AwayId, HomeId, 1, 1, 0, 1),
           Match(OtherId, AwayId, 0, 3, 0, 2) }

MatchResponses(id, n) ==
    {MatchFail} \cup {MatchOk(q) : q \in BoundedSeq(MatchesOf(id), n)}

IdxIdle ==
    /\ form = NoForm
    /\ page = NoPage
    /\ history = << >>

NoProvider == [id \in {HomeId, AwayId} |-> MatchFail]

StatIdle ==
    /\ in_matches = << >>
    /\ in_team = 0
    /\ stats_out = None

RestIdle ==
    /\ provider = NoProvider
    /\ IdxIdle
    /\ StatIdle
    /\ relevant = None

DirInit ==
    /\ ConcIdle
    /\ RestIdle
    /\ file = NoFile
    /\ now = 0
    /\ ticks = 0
    /\ op = "init"
    /\ ret = NoRet
    /\ fetched = << >>
    /\ answers = << >>
    /\ wrote = FALSE

\* whether get_teams gets as far as asking the provider (line 79)
Refreshes(f, t) ==
    \/ f.kind = "missing"
    \/ f.kind = "json" /\ "last_updated" \in f.keys /\ f.iso /\ ~Fresh(f, t)

\* the provider's answers to one call; none are drawn when it is not asked
Answers(f, t) ==
    IF Refreshes(f, t) THEN [COMPETITIONS -> ApiResponses]
    ELSE {[c \in COMPETITIONS |-> ApiFail]}

\* a GET of index(): line 199 calls get_teams and the page shows its result
GetTeams ==
    \E resps \in Answers(file, now) :
        \E r \in {get_teams(file, now, resps)} :
            /\ file' = r.file
            /\ ret' = [status |-> r.status, teams |-> r.teams,
                       league_teams |-> r.league_teams]
            /\ fetched' = r.fetched
            /\ answers' = [c \in DOMAIN r.fetched |-> resps[r.fetched[c]]]
            /\ wrote' = r.wrote
            /\ op' = "get_teams"
            /\ UNCHANGED << now, ticks, concvars, restvars >>

\* the clock advances by one second, or to a second before or after the
\* cache duration
TickSizes == {1, CACHE_DURATION - 1, CACHE_DURATION + 1}

Tick ==
    /\ ticks < MaxTicks
    /\ \E d \in TickSizes : now' = now + d
    /\ ticks' = ticks + 1
    /\ op' = "tick"
    /\ UNCHANGED << file, ret, fetched, answers, wrote, concvars, restvars >>

\* the environment removes the cache file
RemoveFile ==
    /\ file.kind # "missing"
    /\ file' = NoFile
    /\ op' = "env"
    /\ UNCHANGED << now, ticks, ret, fetched, answers, wrote, concvars, restvars >>

\* the environment damages the cache file: its text is no JSON object any
\* more, one key is lost, or last_updated is no ISO timestamp
CorruptFile ==
    /\ WellFormed(file)
    /\ \/ file' = Unparseable
       \/ \E k \in AllKeys :
            file' = [file EXCEPT !.keys = AllKeys \ {k},
                                 !.teams = IF k = "teams" THEN EmptyDict ELSE @,
                                 !.league_teams =
                                     IF k = "league_teams" THEN EmptyDict ELSE @,
                                 !.last_updated =
                                     IF k = "last_updated" THEN 0 ELSE @]
       \/ file' = [file EXCEPT !.iso = FALSE, !.last_updated = 0]
    /\ op' = "env"
    /\ UNCHANGED << now, ticks, ret, fetched, answers, wrote, concvars, restvars >>

Next == GetTeams \/ Tick \/ RemoveFile \/ CorruptFile

vars == << dirvars, concvars, restvars >>

\* one request at a time, each handled in one piece
Spec == DirInit /\ [][Next]_vars

\* ---------------------------------------------------------------- index
ErrSameTeam == "Veuillez selectionner deux equipes differentes."
ErrNoData == "Pas assez de donnees historiques pour ce match."

NoPredictions ==
    [kind |-> "none", result |-> "", double_chance |-> "", half_winner |-> ""]

no_data ==
    [kind |-> "no_data", result |-> "", double_chance |-> "", half_winner |-> ""]

\* lines 223-231, without the markets that rest on the Poisson distribution
Bundle(home_team, away_team, matches, team_ids) ==
    [kind |-> "bundle",
     result |-> predict_result(home_team, away_team, matches, team_ids),
     double_chance |-> predict_double_chance(home_team, away_team, matches, team_ids),
     half_winner |-> predict_half_time_winner(home_team, away_team, matches, team_ids)]

\* lines 200-206: what the page holds before the form is looked at
BasePage(team_ids, league_teams) ==
    [status |-> "ok", teams |-> sorted(DOMAIN team_ids),
     league_teams |-> league_teams, predictions |-> NoPredictions,
     home_team |-> 0, away_team |-> 0,
     home_logo |-> Placeholder, away_logo |-> Placeholder, error |-> "",
     home_stats |-> None, away_stats |-> None, is_vip |-> FALSE]

\* (a handler that predicts whatever the history holds)
Always(historical_matches) == TRUE

\* line 217: if historical_matches
HasData(historical_matches) == historical_matches # << >>

\* lines 208-234: the page of a POST and the team ids whose matches were
\* asked for
PostPage(home_team, away_team, team_ids, league_teams, prov) ==
    LET base == [BasePage(team_ids, league_teams) EXCEPT
                    !.home_team = home_team, !.away_team = away_team]
    IN  IF home_team = away_team
        THEN [page |-> [base EXCEPT !.error = ErrSameTeam], history |-> << >>]
        ELSE IF home_team \in DOMAIN team_ids /\ away_team \in DOMAIN team_ids
        THEN LET historical_matches ==
                     get_relevant_matches(home_team, away_team, team_ids, prov)
                 logos == [base EXCEPT !.home_logo = team_ids[home_team].logo,
                                       !.away_logo = team_ids[away_team].logo]
                 asked == << team_ids[home_team].id, team_ids[away_team].id >>
             IN  IF HasData(historical_matches)
                 THEN [page |->
                          [logos EXCEPT
                              !.home_stats = Some(get_team_stats(
                                  historical_matches, team_ids[home_team].id)),
                              !.away_stats = Some(get_team_stats(
                                  historical_matches, team_ids[away_team].id)),
                              !.predictions = Bundle(home_team, away_team,
                                                     historical_matches, team_ids)],
                       history |-> asked]
                 ELSE [page |-> [logos EXCEPT !.predictions = no_data,
                                              !.error = ErrNoData],
                       history |-> asked]
        ELSE [page |-> base, history |-> << >>]

\* the directory that the cache file holds when the requests below arrive
Directory ==
    cache_data(TeamsDict(<< ApiTeam(1, HomeId, "crest11"),
                            ApiTeam(2, AwayId, NoCrest) >>),
               DictSet(EmptyDict, 1, << 1, 2 >>), 0)

\* the names a form can carry: the two of the directory and one that is not
FormNames == {1, 2, 3}

IndexInit ==
    /\ ConcIdle
    /\ SeqIdle
    /\ StatIdle
    /\ IdxIdle
    /\ relevant = None
    /\ file = Directory
    /\ now = 0
    /\ provider \in [{HomeId, AwayId} -> UNION {MatchResponses(id, MaxMatches) :
                                                   id \in {HomeId, AwayId}}]
    /\ \A id \in {HomeId, AwayId} : provider[id] \in MatchResponses(id, MaxMatches)

\* index(): get_teams first (line 199), then the form of a POST
Index(method, home_team, away_team) ==
    \E resps \in Answers(file, now) :
        \E r \in {get_teams(file, now, resps)} :
            /\ file' = r.file
            /\ ret' = [status |-> r.status, teams |-> r.teams,
                       league_teams |-> r.league_teams]
            /\ fetched' = r.fetched
            /\ answers' = [c \in DOMAIN r.fetched |-> resps[r.fetched[c]]]
            /\ wrote' = r.wrote
            /\ op' = "get_teams"
            /\ form' = [method |-> method, home_team |-> home_team,
                        away_team |-> away_team]
            /\ IF r.status = "crash"
               THEN page' = [status |-> "crash"] /\ history' = << >>
               ELSE IF method = "GET"
               THEN /\ page' = BasePage(r.teams, r.league_teams)
                    /\ history' = << >>
               ELSE \E q \in {PostPage(home_team, away_team, r.teams,
                                       r.league_teams, provider)} :
                       page' = q.page /\ history' = q.history
            /\ UNCHANGED << now, ticks, provider, concvars, statvars, selvars >>

Get == Index("GET", 0, 0)

Post == \E home_team, away_team \in FormNames : Index("POST", home_team, away_team)

NextIndex == Get \/ Post

SpecIndex == IndexInit /\ [][NextIndex]_vars

\* ------------------------------------------- get_team_stats on its own
\* matches of teams 11, 12 and 13 with goal counts that are null, equal, or
\* in favour of either side
Scores == { << NULL, NULL >>, << 2, 1 >>, << 1, 2 >>, << 1, 0 >> }
HalfScores == { << NULL, NULL >>, << 1, 0 >>, << 0, 1 >> }
Pairings == { << HomeId, AwayId >>, << AwayId, HomeId >>, << AwayId, OtherId >> }

StatsMatches ==
    { Match(p[1], p[2], f[1], f[2], h[1], h[2]) :
        p \in Pairings, f \in Scores, h \in HalfScores }

StatsInit ==
    /\ ConcIdle
    /\ SeqIdle
    /\ IdxIdle
    /\ provider = NoProvider
    /\ relevant = None
    /\ file = NoFile
    /\ now = 0
    /\ in_matches \in BoundedSeq(StatsMatches, MaxStatMatches)
    /\ in_team \in {HomeId, AwayId}
    /\ stats_out = None

ComputeStats ==
    /\ ~stats_out.some
    /\ stats_out' = Some(get_team_stats(in_matches, in_team))
    /\ UNCHANGED << dirvars, concvars, idxvars, in_matches, in_team, selvars >>

NextStats == ComputeStats

SpecStats == StatsInit /\ [][NextStats]_vars

\* ------------------------------------- get_relevant_matches on its own
\* the away team's recent matches: distinct matches against the third team
AwayForm == [i \in 1 .. MaxRecent |-> Match(OtherId, AwayId, i, 0, 0, 0)]

\* the home team's recent matches: the two teams at either ground, and the
\* home team against the third team
HomeForm ==
    { Match(HomeId, AwayId, 2, 1, 1, 0),
      Match(AwayId, HomeId, 1, 1, 0, 1),
      Match(HomeId, OtherId, 0, 0, 0, 0) }

SelectInit ==
    /\ ConcIdle
    /\ SeqIdle
    /\ StatIdle
    /\ IdxIdle
    /\ relevant = None
    /\ file = NoFile
    /\ now = 0
    /\ \E q \in BoundedSeq(HomeForm, MaxRecent), k \in 0 .. MaxRecent :
          provider = [id \in {HomeId, AwayId} |->
                         IF id = HomeId THEN MatchOk(q)
                         ELSE MatchOk(SubSeq(AwayForm, 1, k))]

Select ==
    /\ ~relevant.some
    /\ relevant' = Some(get_relevant_matches(1, 2, Directory.teams, provider))
    /\ UNCHANGED << dirvars, concvars, idxvars, statvars >>

NextSelect == Select

SpecSelect == SelectInit /\ [][NextSelect]_vars

\* ------------------------------------------------- requests side by side
\* app.run serves each request in a thread of its own; get_teams and
\* update_teams_cache take no lock, so their file operations interleave.

\* a cache written two days before the requests arrive
StaleCache ==
    cache_data(TeamsDict(<< ApiTeam(2, 12, NoCrest) >>),
               DictSet(EmptyDict, 1, << 2 >>), 0 - CACHE_DURATION)

ConcInit ==
    /\ SeqIdle
    /\ RestIdle
    /\ ConcIdle
    /\ now = 0
    /\ file \in {NoFile, StaleCache}

\* line 71: os.path.exists
CExists(p) ==
    /\ pc[p] = "idle"
    /\ pc' = [pc EXCEPT ![p] = IF Exists(file) THEN "load" ELSE "refresh"]
    /\ cret' = [cret EXCEPT ![p] = NoRet]
    /\ UNCHANGED << file, now, loc, seqvars, restvars >>

\* lines 72-76: the file is opened and read as it is at this moment
CLoad(p) ==
    /\ pc[p] = "load"
    /\ IF ~WellFormed(file)
       THEN /\ pc' = [pc EXCEPT ![p] = "idle"]
            /\ cret' = [cret EXCEPT ![p] = [NoRet EXCEPT !.status = "crash"]]
       ELSE IF Fresh(file, now)
       THEN /\ pc' = [pc EXCEPT ![p] = "idle"]
            /\ cret' = [cret EXCEPT ![p] =
                           [status |-> "ok", teams |-> file.teams,
                            league_teams |-> file.league_teams]]
       ELSE /\ pc' = [pc EXCEPT ![p] = "refresh"]
            /\ UNCHANGED cret
    /\ UNCHANGED << file, now, loc, seqvars, restvars >>

\* lines 51-64: the requests to the provider and the cache_data built from them
CFetch(p) ==
    /\ pc[p] = "refresh"
    /\ \E resps \in [COMPETITIONS -> ApiResponses] :
         \E m \in {MergeComps(resps, NumComps)} :
            loc' = [loc EXCEPT ![p] = cache_data(m.all_teams, m.league_teams, now)]
    /\ pc' = [pc EXCEPT ![p] = "open"]
    /\ UNCHANGED << file, now, cret, seqvars, restvars >>

\* line 65: open(TEAMS_CACHE_FILE, "w") empties the file
COpen(p) ==
    /\ pc[p] = "open"
    /\ file' = Unparseable
    /\ pc' = [pc EXCEPT ![p] = "dump"]
    /\ UNCHANGED << now, loc, cret, seqvars, restvars >>

\* lines 66-67: the text is written from the start of the file.  When another
\* request has written its own text since this one emptied the file, what is
\* left is this request's text, or that followed by the rest of a longer one.
CDump(p) ==
    /\ pc[p] = "dump"
    /\ \/ file' = loc[p]
       \/ /\ file.kind = "json"
          /\ file # loc[p]
          /\ file' = Unparseable
    /\ pc' = [pc EXCEPT ![p] = "idle"]
    /\ cret' = [cret EXCEPT ![p] =
                   [status |-> "ok", teams |-> loc[p].teams,
                    league_teams |-> loc[p].league_teams]]
    /\ UNCHANGED << now, loc, seqvars, restvars >>

NextConc ==
    \E p \in Procs : CExists(p) \/ CLoad(p) \/ CFetch(p) \/ COpen(p) \/ CDump(p)

SpecConc == ConcInit /\ [][NextConc]_vars

\* ======================================================= the cache claims
AllComps == [c \in COMPETITIONS |-> c]
Age(f, t) == t - f.last_updated

\* C1: a call of get_teams that finds a cache file younger than
\* CACHE_DURATION returns the file's teams and league_teams, asks the provider
\* nothing and writes nothing; a call that finds no file, or a file at least
\* CACHE_DURATION old, asks the provider for every competition, writes the
\* cache and returns what it wrote.
C1_LoadContract ==
    [][ op' = "get_teams" =>
          /\ (WellFormed(file) /\ Age(file, now) < CACHE_DURATION) =>
                /\ ret'.status = "ok"
                /\ ret'.teams = file.teams
                /\ ret'.league_teams = file.league_teams
                /\ fetched' = << >>
                /\ wrote' = FALSE
                /\ file' = file
          /\ (~Exists(file) \/ (WellFormed(file) /\ Age(file, now) >= CACHE_DURATION)) =>
                /\ ret'.status = "ok"
                /\ fetched' = AllComps
                /\ wrote' = TRUE
                /\ WellFormed(file')
                /\ file'.last_updated = now
                /\ ret'.teams = file'.teams
                /\ ret'.league_teams = file'.league_teams
      ]_vars

\* a cache one second short of CACHE_DURATION has just been served as it is
C1_Witness ==
    /\ op = "get_teams"
    /\ ret.status = "ok"
    /\ fetched = << >>
    /\ WellFormed(file)
    /\ Age(file, now) = CACHE_DURATION - 1
    /\ ret.teams = file.teams
    /\ ret.teams # EmptyDict

\* the names a provider answer carries
Names(resp) == {resp.teams[i].name : i \in DOMAIN resp.teams}

\* the competition a name is taken from: the last one whose answer carries it
LastComp(n, cs) == CHOOSE c \in cs : n \in Names(answers[c]) /\
                       \A d \in cs : n \in Names(answers[d]) => d <= c

\* the record of name n in an answer: the last one of that name
LastRecord(n, resp) ==
    LET i == CHOOSE j \in DOMAIN resp.teams : resp.teams[j].name = n /\
                 \A k \in DOMAIN resp.teams : resp.teams[k].name = n => k <= j
    IN  resp.teams[i]

Ascending(q) == \A i, j \in DOMAIN q : i < j => q[i] < q[j]
Elements(q) == {q[i] : i \in DOMAIN q}

\* the directory that the competitions in cs make up
MergedFrom(cs) ==
    /\ DOMAIN ret.league_teams = cs
    /\ \A c \in cs : /\ Ascending(ret.league_teams[c])
                     /\ Elements(ret.league_teams[c]) = Names(answers[c])
    /\ DOMAIN ret.teams = UNION {Names(answers[c]) : c \in cs}
    /\ \A n \in DOMAIN ret.teams :
          LET t == LastRecord(n, answers[LastComp(n, cs)])
          IN  /\ ret.teams[n].id = t.id
              /\ ret.teams[n].logo = IF t.crest = NoCrest THEN Placeholder ELSE t.crest

Refreshed == op = "get_teams" /\ wrote

Persisted ==
    /\ ret.status = "ok"
    /\ fetched = AllComps
    /\ WellFormed(file)
    /\ file.teams = ret.teams
    /\ file.league_teams = ret.league_teams
    /\ file.last_updated = now

\* C3 as stated: after a refresh every competition was requested, the ones
\* whose request did not fail make up the directory (each with its sorted
\* names, a later competition replacing a name of an earlier one), and the
\* directory is in the cache file with the time of the refresh.
C3_AsStated ==
    Refreshed => /\ Persisted
                 /\ MergedFrom({c \in COMPETITIONS : answers[c].ok})

\* C3 as the code has it: the competitions that make up the directory are the
\* ones whose request did not fail and whose answer holds at least one team.
C3_Refresh ==
    Refreshed => /\ Persisted
                 /\ MergedFrom({c \in COMPETITIONS :
                                  answers[c].ok /\ answers[c].teams # << >>})
                 /\ ((\A c \in COMPETITIONS : ~answers[c].ok) =>
                        ret.teams = EmptyDict /\ ret.league_teams = EmptyDict)

\* a refresh in which one request failed and another brought two teams
C3_Witness ==
    /\ Refreshed
    /\ \E c, d \in COMPETITIONS :
          /\ ~answers[c].ok
          /\ answers[d].ok
          /\ Len(answers[d].teams) = 2
          /\ c \notin DOMAIN ret.league_teams
          /\ ret.league_teams[d] = << 1, 2 >>

\* C4: a call of get_teams that finds a cache file that is damaged ends as a
\* call that finds no file does: it refreshes and returns normally.
C4_DamagedAsMissing ==
    [][ (op' = "get_teams" /\ Exists(file) /\ ~WellFormed(file)) =>
          /\ ret'.status = "ok"
          /\ fetched' = AllComps
          /\ wrote' = TRUE
      ]_vars

\* C10: a refresh in which every request failed leaves the empty directory in
\* the cache file with the time of the refresh, and a call that finds that
\* file younger than CACHE_DURATION returns the empty directory and asks the
\* provider nothing.
C10_OutageCached ==
    /\ [](( /\ op = "get_teams"
            /\ fetched = AllComps
            /\ \A c \in COMPETITIONS : ~answers[c].ok ) =>
              file = cache_data(EmptyDict, EmptyDict, now))
    /\ [][ ( /\ op' = "get_teams"
             /\ WellFormed(file)
             /\ file.teams = EmptyDict
             /\ file.league_teams = EmptyDict
             /\ Age(file, now) < CACHE_DURATION ) =>
               /\ ret'.status = "ok"
               /\ ret'.teams = EmptyDict
               /\ ret'.league_teams = EmptyDict
               /\ fetched' = << >>
               /\ file' = file
         ]_vars

\* the empty directory of a failed refresh, served a second short of CACHE_DURATION
C10_Witness ==
    /\ op = "get_teams"
    /\ ~wrote
    /\ fetched = << >>
    /\ ret.status = "ok"
    /\ ret.teams = EmptyDict
    /\ file = cache_data(EmptyDict, EmptyDict, now - (CACHE_DURATION - 1))

\* ================================================= the concurrency claim
\* the request is inside update_teams_cache, past its provider requests
Refreshing(p) == pc[p] \in {"open", "dump"}

\* at no time are two requests inside update_teams_cache
OneRefreshAtATime == Cardinality({p \in Procs : Refreshing(p)}) <= 1

\* no request reads a cache file that is written in part: none fails on
\* the file's text
NoPartialRead == \A p \in Procs : cret[p].status # "crash"

\* C2: under any interleaving of requests at most one refresh is in flight,
\* and a request that reads the cache file finds the whole previous cache or
\* the whole new one.
C2_Serialized == OneRefreshAtATime /\ NoPartialRead

\* ==================================================== the request claims
Posted == page.status = "ok" /\ form.method = "POST"

InDirectory(n) == n \in DOMAIN ret.teams

\* the request named two different teams of the directory
ValidSelection ==
    /\ form.home_team # form.away_team
    /\ InDirectory(form.home_team)
    /\ InDirectory(form.away_team)

\* the provider has no match of the team: the request failed or brought none
NoMatches(n) ==
    \/ ~provider[ret.teams[n].id].ok
    \/ provider[ret.teams[n].id].matches = << >>

\* C5: a POST that names the same team twice, or a team that the directory
\* does not hold, ends with an error on the page, asks for no match history
\* and computes no statistics and no prediction.
C5_InvalidSelection ==
    (Posted /\ ~ValidSelection) =>
        /\ page.error # ""
        /\ history = << >>
        /\ page.predictions.kind = "none"
        /\ ~page.home_stats.some
        /\ ~page.away_stats.some

\* C6: a POST that names two different teams of the directory asks for the
\* matches of both; when both lists come back empty the page holds no_data
\* with an error text and no statistics, and it holds a bundle only when one
\* of the lists is not empty.
C6_InsufficientHistory ==
    (Posted /\ ValidSelection) =>
        /\ history = << ret.teams[form.home_team].id, ret.teams[form.away_team].id >>
        /\ (NoMatches(form.home_team) /\ NoMatches(form.away_team)) =>
              /\ page.predictions = no_data
              /\ page.error # ""
              /\ ~page.home_stats.some
              /\ ~page.away_stats.some
        /\ page.predictions.kind = "bundle" =>
              /\ ~(NoMatches(form.home_team) /\ NoMatches(form.away_team))
              /\ page.error = ""
        /\ page.predictions.kind \in {"bundle", "no_data"}

\* both requests for matches failed and the page says so
C6_Witness ==
    /\ Posted
    /\ ValidSelection
    /\ ~provider[HomeId].ok
    /\ ~provider[AwayId].ok
    /\ page.predictions = no_data
    /\ page.error = ErrNoData

\* the first of "1", "X", "2" that holds the largest of a, x, b
FirstMax(a, x, b) ==
    IF a >= x /\ a >= b THEN "1" ELSE IF x >= b THEN "X" ELSE "2"

\* 1 - (1 - half_time_win_rate) * (1 - second_half_win_rate), in 1/10000
EitherHalf(st) ==
    10000 - (100 - st.half_time_win_rate) * (100 - st.second_half_win_rate)

\* C9 as stated: the half-time winner of a bundle is the first maximiser of
\* homeProb, 0.1 and awayProb, each the chance of the team winning either half.
C9_AsStated ==
    (Posted /\ page.predictions.kind = "bundle") =>
        page.predictions.half_winner =
            FirstMax(EitherHalf(page.home_stats.value), 1000,
                     EitherHalf(page.away_stats.value))

\* C9 as the code has it: homeProb and awayProb are the half-time win rates
\* of the two teams, and the second-half win rate is not looked at.
C9_HalfTimeWinner ==
    (Posted /\ page.predictions.kind = "bundle") =>
        page.predictions.half_winner =
            FirstMax(page.home_stats.value.half_time_win_rate, 10,
                     page.away_stats.value.half_time_win_rate)

\* a bundle for a home team that won second halves and no first half: "X"
C9_Witness ==
    /\ Posted
    /\ page.predictions.kind = "bundle"
    /\ page.home_stats.value.half_time_win_rate = 0
    /\ page.home_stats.value.second_half_win_rate > 0
    /\ page.predictions.half_winner = "X"

\* ================================================== the selection claim
\* C7: the relevant matches are the matches of the home team's list that the
\* two teams played against each other, at either ground, then the first five
\* of the home team's list, then the first five of the away team's list.
C7_RelevantMatches ==
    relevant.some =>
        LET hm == provider[HomeId].matches
            am == provider[AwayId].matches
            Between(m) == \/ m.homeTeam = HomeId /\ m.awayTeam = AwayId
                          \/ m.homeTeam = AwayId /\ m.awayTeam = HomeId
            Min5(n) == IF n < 5 THEN n ELSE 5
            direct == SelectSeq(hm, Between)
        IN  /\ relevant.value =
                  direct \o SubSeq(hm, 1, Min5(Len(hm))) \o SubSeq(am, 1, Min5(Len(am)))
            /\ Len(relevant.value) = Len(direct) + Min5(Len(hm)) + Min5(Len(am))

\* ================================================= the statistics claim
RECURSIVE Sum(_, _)
Sum(f, S) ==
    IF S = {} THEN 0
    ELSE LET x == CHOOSE y \in S : TRUE
         IN  f[x] + Sum(f, S \ {x})

Goals(x) == IF x >= 0 THEN x ELSE 0

\* v hundredths is a nearest hundredth of total / games
Nearest(v, total, games) ==
    LET d == 100 * total - v * games
    IN  2 * d <= games /\ 2 * (0 - d) <= games

\* C8: get_team_stats gives five zeros for an empty list; for another list
\* each field is the total over the matches the team played in, from the
\* team's side (the second half always home against away, a null count as
\* 0), divided by the length of the whole list.
C8_Stats ==
    stats_out.some =>
        LET m == in_matches
            t == in_team
            st == stats_out.value
            n == Len(m)
            AtHome == {i \in 1 .. n : m[i].homeTeam = t}
            Away == {i \in 1 .. n : m[i].awayTeam = t /\ m[i].homeTeam # t}
            Played == AtHome \cup Away
            scored == [i \in 1 .. n |-> IF i \in AtHome THEN Goals(m[i].ftHome)
                                        ELSE Goals(m[i].ftAway)]
            conceded == [i \in 1 .. n |-> IF i \in AtHome THEN Goals(m[i].ftAway)
                                          ELSE Goals(m[i].ftHome)]
            LedAtHalf == {i \in AtHome : Goals(m[i].htHome) > Goals(m[i].htAway)}
                           \cup {i \in Away : Goals(m[i].htAway) > Goals(m[i].htHome)}
            HomeWonSecond ==
                {i \in Played : Goals(m[i].ftHome) - Goals(m[i].htHome)
                                  > Goals(m[i].ftAway) - Goals(m[i].htAway)}
            BothScored ==
                {i \in Played : Goals(m[i].ftHome) > 0 /\ Goals(m[i].ftAway) > 0}
        IN  IF n = 0
            THEN /\ st.goals_avg_scored = 0
                 /\ st.goals_avg_conceded = 0
                 /\ st.half_time_win_rate = 0
                 /\ st.second_half_win_rate = 0
                 /\ st.both_teams_score_rate = 0
            ELSE /\ Nearest(st.goals_avg_scored, Sum(scored, Played), n)
                 /\ Nearest(st.goals_avg_conceded, Sum(conceded, Played), n)
                 /\ Nearest(st.half_time_win_rate, Cardinality(LedAtHalf), n)
                 /\ Nearest(st.second_half_win_rate, Cardinality(HomeWonSecond), n)
                 /\ Nearest(st.both_teams_score_rate, Cardinality(BothScored), n)

\* the statistics of the away side of a match whose second half the home
\* side won, in a list with a match the team did not play in
C8_Witness ==
    /\ stats_out.some
    /\ Len(in_matches) = 2
    /\ in_matches[1].awayTeam = in_team
    /\ in_matches[1].ftHome = 2 /\ in_matches[1].htHome = 0
    /\ in_matches[1].ftAway = 1 /\ in_matches[1].htAway = 1
    /\ in_matches[2].homeTeam # in_team /\ in_matches[2].awayTeam # in_team
    /\ stats_out.value.second_half_win_rate = 50
    /\ stats_out.value.half_time_win_rate = 50
    /\ stats_out.value.goals_avg_scored = 50
    /\ stats_out.value.goals_avg_conceded = 100
====
